---- MODULE Spec2Model ----
(***************************************************************************)
(* Model of the invite blueprint of the Snikket web portal                 *)
(* (src/snikket_web/invite.py): the handlers view, register, reset,        *)
(* success and reset_success, the two forms and the per-browser session.   *)
(*                                                                         *)
(* Every handler touches shared state (the session) in at most one write,  *)
(* made after its last await, so a request is one atomic step.  The remote *)
(* account service is a black box: what it answers to the invite fetch and *)
(* to the register call is chosen nondeterministically for every request.  *)
(***************************************************************************)
EXTENDS Integers, Sequences

\* ------------------------------------------------------------------ bounds
\* Browser sessions that send requests, each with its own session store.
NumSessions == 1

Sessions == 1..NumSessions

\* ------------------------------------------------------------------ inputs
\* Invite ids a request may name; NoId is the id of a route without <id_>.
Ids == {1, 2}
NoId == 0

\* Account identifiers the remote service may return from a register call.
Jids == {"alice@example.org", "bob@example.org"}
\* What a browser may put in the localpart / password / password_confirm
\* fields of a POST ("" is a field left empty or not sent at all).
Localparts == {"", "alice"}
Passwords == {"", "p", "q"}
\* reset_localpart of a fetched invite: <<>> is None.
ResetLocalparts == {<<>>, <<"bob">>}
\* Failure statuses of the invite fetch and of the register call.
FetchErrors == {404, 500}
RegisterErrors == {400, 403, 404, 409, 500}

\* ------------------------------------------------------------------ state
VARIABLES http_session, registered, last

vars == <<http_session, registered, last>>

\* ------------------------------------------------------------ values
EmptyForm == [localpart |-> "", password |-> "", password_confirm |-> ""]
Forms == [localpart : Localparts, password : Passwords, password_confirm : Passwords]

NoInvite == [reset_localpart |-> <<>>]
NoFetch == [status |-> 0, invite |-> NoInvite]
FetchOutcomes ==
    {[status |-> 200, invite |-> [reset_localpart |-> r]] : r \in ResetLocalparts}
    \cup {[status |-> s, invite |-> NoInvite] : s \in FetchErrors}

NoRegister == [status |-> 0, jid |-> ""]
RegisterOutcomes ==
    {[status |-> 200, jid |-> j] : j \in Jids}
    \cup {[status |-> s, jid |-> ""] : s \in RegisterErrors}

\* Messages of the forms' validators and of the handlers' error mapping.
MsgRequired == "This field is required."
MsgMustMatch == "The passwords must match."
MsgTaken == "That username is already taken."
MsgDeclined == "Registration was declined for unknown reasons."
MsgInvalid == "The username is not valid."

NoErrors == [localpart |-> <<>>, password_confirm |-> <<>>]
NoLocation == [endpoint |-> "", id_ |-> NoId]
NoExc == [type |-> "", status |-> 0]

\* ------------------------------------------------------------ responses
render_template(name, code, errs, localpart_value, jid_value) ==
    [kind |-> "render", status |-> code, template |-> name,
     location |-> NoLocation, errors |-> errs,
     form_localpart |-> localpart_value, jid |-> jid_value, exc |-> NoExc]

redirect(target, target_id) ==
    [kind |-> "redirect", status |-> 302, template |-> "",
     location |-> [endpoint |-> target, id_ |-> target_id],
     errors |-> NoErrors, form_localpart |-> "", jid |-> "", exc |-> NoExc]

\* An exception leaving the handler: the request fails with a server error.
raise(exc_type, exc_status) ==
    [kind |-> "error", status |-> 500, template |-> "",
     location |-> NoLocation, errors |-> NoErrors, form_localpart |-> "",
     jid |-> "", exc |-> [type |-> exc_type, status |-> exc_status]]

NoResponse ==
    [kind |-> "", status |-> 0, template |-> "", location |-> NoLocation,
     errors |-> NoErrors, form_localpart |-> "", jid |-> "", exc |-> NoExc]

\* What a handler did: its response, the register_with_token calls it
\* issued, and the value it stored in the session (<<>>: no write).
Result(response, issued, written) ==
    [resp |-> response, calls |-> issued, session_write |-> written]

\* ------------------------------------------------------------ view
view_fetch_error(status) ==
    IF status = 404
    THEN Result(render_template("invite_invalid.html", 404, NoErrors, "", ""),
                <<>>, <<>>)
    ELSE Result(raise("ClientResponseError", status), <<>>, <<>>)

view(id_, fetch) ==
    IF fetch.status # 200
    THEN view_fetch_error(fetch.status)
    ELSE IF fetch.invite.reset_localpart # <<>>
    THEN Result(render_template("invite_reset_view.html", 200, NoErrors, "", ""),
                <<>>, <<>>)
    ELSE Result(render_template("invite_view.html", 200, NoErrors, "", ""),
                <<>>, <<>>)

\* ------------------------------------------------------------ forms
\* wtforms.validators.InputRequired: the field's raw data must be non-empty;
\* otherwise the field's errors become the one message and the chain stops.
InputRequired(data) == data # ""

\* wtforms.validators.EqualTo("password", message).
EqualTo(data, other) == data = other

\* Mutant of RegisterForm_validate: password_confirm without EqualTo.
RegisterForm_validate_NoEqualTo(form) ==
    [localpart |-> <<>>,
     password_confirm |->
        IF ~InputRequired(form.password_confirm) THEN <<MsgRequired>>
        ELSE <<>>]

\* RegisterForm.validate(): localpart and password carry no validators;
\* password_confirm runs [InputRequired(), EqualTo("password", ...)] in order.
RegisterForm_validate(form) ==
    [localpart |-> <<>>,
     password_confirm |->
        IF ~InputRequired(form.password_confirm) THEN <<MsgRequired>>
        ELSE IF ~EqualTo(form.password_confirm, form.password) THEN <<MsgMustMatch>>
        ELSE <<>>]

\* ResetForm.validate(): the form has no localpart field at all.
ResetForm_validate(form) ==
    [localpart |-> <<>>,
     password_confirm |->
        IF ~InputRequired(form.password_confirm) THEN <<MsgRequired>>
        ELSE IF ~EqualTo(form.password_confirm, form.password) THEN <<MsgMustMatch>>
        ELSE <<>>]

\* form.validate_on_submit(): is_submitted() and validate().
validate_on_submit(method, errors) ==
    method = "POST" /\ errors = NoErrors

\* The errors a rendered form shows: validate() only ran on a submission.
form_errors(method, errors) ==
    IF method = "POST" THEN errors ELSE NoErrors

\* ------------------------------------------------------------ register
\* Mutant of register_fetch_error: the 404 branch builds the redirect but
\* does not return it.
register_fetch_error_NoReturn(id_, status) ==
    Result(raise("UnboundLocalError", 0), <<>>, <<>>)

\* The except clause of the fetch: 404 returns the redirect; for any other
\* status the clause ends without return or raise, and the next statement
\* reads the local `invite`, which was never bound.
register_fetch_error(id_, status) ==
    IF status = 404
    THEN Result(redirect("view", id_), <<>>, <<>>)
    ELSE Result(raise("UnboundLocalError", 0), <<>>, <<>>)

\* Mutant of register_wrong_path: the invite's type is not looked at.
register_wrong_path_Unchecked(invite) == FALSE

register_wrong_path(invite) == invite.reset_localpart # <<>>

register_call(id_, invite, form) ==
    [username |-> form.localpart, password |-> form.password, token |-> id_]

\* Mutant of register_call_error: the 409 and 400 messages are exchanged.
register_call_error_Swapped(id_, form, call, status) ==
    IF status = 409
    THEN Result(render_template("invite_register.html", 200,
                    [NoErrors EXCEPT !.localpart = <<MsgInvalid>>],
                    form.localpart, ""),
                <<call>>, <<>>)
    ELSE IF status = 403
    THEN Result(render_template("invite_register.html", 200,
                    [NoErrors EXCEPT !.localpart = <<MsgDeclined>>],
                    form.localpart, ""),
                <<call>>, <<>>)
    ELSE IF status = 400
    THEN Result(render_template("invite_register.html", 200,
                    [NoErrors EXCEPT !.localpart = <<MsgTaken>>],
                    form.localpart, ""),
                <<call>>, <<>>)
    ELSE IF status = 404
    THEN Result(redirect("view", id_), <<call>>, <<>>)
    ELSE Result(raise("ClientResponseError", status), <<call>>, <<>>)

register_call_error(id_, form, call, status) ==
    IF status = 409
    THEN Result(render_template("invite_register.html", 200,
                    [NoErrors EXCEPT !.localpart = <<MsgTaken>>],
                    form.localpart, ""),
                <<call>>, <<>>)
    ELSE IF status = 403
    THEN Result(render_template("invite_register.html", 200,
                    [NoErrors EXCEPT !.localpart = <<MsgDeclined>>],
                    form.localpart, ""),
                <<call>>, <<>>)
    ELSE IF status = 400
    THEN Result(render_template("invite_register.html", 200,
                    [NoErrors EXCEPT !.localpart = <<MsgInvalid>>],
                    form.localpart, ""),
                <<call>>, <<>>)
    ELSE IF status = 404
    THEN Result(redirect("view", id_), <<call>>, <<>>)
    ELSE Result(raise("ClientResponseError", status), <<call>>, <<>>)

\* Mutant of register_call_ok: the redirect without the session write.
register_call_ok_NoStore(call, jid) ==
    Result(redirect("success", NoId), <<call>>, <<>>)

register_call_ok(call, jid) ==
    Result(redirect("success", NoId), <<call>>, <<jid>>)

\* Whether the handler reaches client.register_with_token.
register_submits(method, form, fetch) ==
    /\ fetch.status = 200
    /\ ~register_wrong_path(fetch.invite)
    /\ validate_on_submit(method, RegisterForm_validate(form))

register(id_, method, form, fetch, reg) ==
    IF fetch.status # 200
    THEN register_fetch_error(id_, fetch.status)
    ELSE IF register_wrong_path(fetch.invite)
    THEN Result(redirect("reset", id_), <<>>, <<>>)
    ELSE IF validate_on_submit(method, RegisterForm_validate(form))
    THEN LET call == register_call(id_, fetch.invite, form)
         IN  IF reg.status = 200
             THEN register_call_ok(call, reg.jid)
             ELSE register_call_error(id_, form, call, reg.status)
    ELSE Result(render_template("invite_register.html", 200,
                    form_errors(method, RegisterForm_validate(form)),
                    form.localpart, ""),
                <<>>, <<>>)

\* ------------------------------------------------------------ reset
reset_fetch_error(id_, status) ==
    IF status = 404
    THEN Result(redirect("view", id_), <<>>, <<>>)
    ELSE Result(raise("UnboundLocalError", 0), <<>>, <<>>)

reset_wrong_path(invite) == invite.reset_localpart = <<>>

\* Mutant of reset_call: the username taken from the submitted form, as in
\* register.
reset_call_FormUsername(id_, invite, form) ==
    [username |-> form.localpart, password |-> form.password, token |-> id_]

reset_call(id_, invite, form) ==
    [username |-> invite.reset_localpart[1], password |-> form.password,
     token |-> id_]

\* Mutant of reset_call_error: the final else renders the form instead of
\* re-raising.
reset_call_error_Swallow(id_, form, call, status) ==
    IF status = 403
    THEN Result(raise("AttributeError", 0), <<call>>, <<>>)
    ELSE IF status = 404
    THEN Result(redirect("view", id_), <<call>>, <<>>)
    ELSE Result(render_template("invite_reset.html", 200, NoErrors, "", ""),
                <<call>>, <<>>)

\* The 403 branch reads form.localpart, which ResetForm does not define:
\* the attribute lookup raises inside the except clause.
reset_call_error(id_, form, call, status) ==
    IF status = 403
    THEN Result(raise("AttributeError", 0), <<call>>, <<>>)
    ELSE IF status = 404
    THEN Result(redirect("view", id_), <<call>>, <<>>)
    ELSE Result(raise("ClientResponseError", status), <<call>>, <<>>)

reset_call_ok(call, jid) ==
    Result(redirect("reset_success", NoId), <<call>>, <<jid>>)

reset_submits(method, form, fetch) ==
    /\ fetch.status = 200
    /\ ~reset_wrong_path(fetch.invite)
    /\ validate_on_submit(method, ResetForm_validate(form))

reset(id_, method, form, fetch, reg) ==
    IF fetch.status # 200
    THEN reset_fetch_error(id_, fetch.status)
    ELSE IF reset_wrong_path(fetch.invite)
    THEN Result(redirect("register", id_), <<>>, <<>>)
    ELSE IF validate_on_submit(method, ResetForm_validate(form))
    THEN LET call == reset_call(id_, fetch.invite, form)
         IN  IF reg.status = 200
             THEN reset_call_ok(call, reg.jid)
             ELSE reset_call_error(id_, form, call, reg.status)
    ELSE Result(render_template("invite_reset.html", 200,
                    form_errors(method, ResetForm_validate(form)), "", ""),
                <<>>, <<>>)

\* ------------------------------------------------------------ session
session_get(sess, default) ==
    IF sess = <<>> THEN default ELSE sess[1]

success(sess) ==
    Result(render_template("invite_success.html", 200, NoErrors, "",
                           session_get(sess, "")),
           <<>>, <<>>)

reset_success(sess) ==
    Result(render_template("invite_reset_success.html", 200, NoErrors, "",
                           session_get(sess, "")),
           <<>>, <<>>)

\* ------------------------------------------------------------ requests
Request(target, http_method, invite_id, browser, data) ==
    [endpoint |-> target, method |-> http_method, id_ |-> invite_id,
     session |-> browser, form |-> data]

Handled(request, fetched, outcome, res) ==
    [req |-> request, fetch |-> fetched, reg |-> outcome, calls |-> res.calls,
     session_write |-> res.session_write, resp |-> res.resp]

\* The session store after the handler ran: http_session[KEY] = jid.
session_after(sessions, handled) ==
    IF handled.session_write # <<>>
    THEN [sessions EXCEPT ![handled.req.session] = handled.session_write]
    ELSE sessions

\* The account identifier the remote service last returned to each session.
registered_after(returned, handled) ==
    IF handled.calls # <<>> /\ handled.reg.status = 200
    THEN [returned EXCEPT ![handled.req.session] = <<handled.reg.jid>>]
    ELSE returned

\* A GET carries no form data; a POST carries whatever the browser sent.
SubmittedForms(method) ==
    IF method = "POST" THEN Forms ELSE {EmptyForm}

HandleView ==
    \E id_ \in Ids, s \in Sessions, fetch \in FetchOutcomes :
        LET req == Request("view", "GET", id_, s, EmptyForm)
            res == view(id_, fetch)
        IN  /\ last' = Handled(req, fetch, NoRegister, res)
            /\ http_session' = session_after(http_session, last')
            /\ registered' = registered_after(registered, last')

HandleRegister ==
    \E id_ \in Ids, s \in Sessions, method \in {"GET", "POST"},
       fetch \in FetchOutcomes :
        \E form \in SubmittedForms(method) :
            \E reg \in IF register_submits(method, form, fetch)
                       THEN RegisterOutcomes ELSE {NoRegister} :
                LET req == Request("register", method, id_, s, form)
                    res == register(id_, method, form, fetch, reg)
                IN  /\ last' = Handled(req, fetch, reg, res)
                    /\ http_session' = session_after(http_session, last')
                    /\ registered' = registered_after(registered, last')

HandleReset ==
    \E id_ \in Ids, s \in Sessions, method \in {"GET", "POST"},
       fetch \in FetchOutcomes :
        \E form \in SubmittedForms(method) :
            \E reg \in IF reset_submits(method, form, fetch)
                       THEN RegisterOutcomes ELSE {NoRegister} :
                LET req == Request("reset", method, id_, s, form)
                    res == reset(id_, method, form, fetch, reg)
                IN  /\ last' = Handled(req, fetch, reg, res)
                    /\ http_session' = session_after(http_session, last')
                    /\ registered' = registered_after(registered, last')

HandleSuccess ==
    \E s \in Sessions, method \in {"GET", "POST"} :
        LET req == Request("success", method, NoId, s, EmptyForm)
            res == success(http_session[s])
        IN  /\ last' = Handled(req, NoFetch, NoRegister, res)
            /\ http_session' = session_after(http_session, last')
            /\ registered' = registered_after(registered, last')

HandleResetSuccess ==
    \E s \in Sessions, method \in {"GET", "POST"} :
        LET req == Request("reset_success", method, NoId, s, EmptyForm)
            res == reset_success(http_session[s])
        IN  /\ last' = Handled(req, NoFetch, NoRegister, res)
            /\ http_session' = session_after(http_session, last')
            /\ registered' = registered_after(registered, last')

Init ==
    /\ http_session = [s \in Sessions |-> <<>>]
    /\ registered = [s \in Sessions |-> <<>>]
    /\ last = [req |-> Request("", "", NoId, 0, EmptyForm), fetch |-> NoFetch,
               reg |-> NoRegister, calls |-> <<>>, session_write |-> <<>>,
               resp |-> NoResponse]

Next ==
    \/ HandleView
    \/ HandleRegister
    \/ HandleReset
    \/ HandleSuccess
    \/ HandleResetSuccess

Spec == Init /\ [][Next]_vars

\* ------------------------------------------------------------ properties
\* The request just handled, for the formulas below.
IsRequest(endpoint) == last.req.endpoint = endpoint
FormEndpoint == last.req.endpoint \in {"register", "reset"}
\* The invite was fetched and is of the type the endpoint serves.
RightPath ==
    /\ last.fetch.status = 200
    /\ IsRequest("register") => last.fetch.invite.reset_localpart = <<>>
    /\ IsRequest("reset") => last.fetch.invite.reset_localpart # <<>>
FormTemplate ==
    IF IsRequest("register") THEN "invite_register.html" ELSE "invite_reset.html"
RendersForm ==
    /\ last.resp.kind = "render"
    /\ last.resp.template = FormTemplate

\* C1: when the invite fetch fails with 404, view answers with the
\* invalid-invite page and status 404, and register and reset (GET or POST,
\* any form) redirect to view for the same id, issue no register call and
\* write nothing to the session.
C1_NotFound ==
    last.fetch.status = 404 =>
        /\ IsRequest("view") =>
              /\ last.resp.kind = "render"
              /\ last.resp.template = "invite_invalid.html"
              /\ last.resp.status = 404
        /\ FormEndpoint =>
              /\ last.resp = redirect("view", last.req.id_)
              /\ last.calls = <<>>
              /\ last.session_write = <<>>

\* C1 witness: a POST of a valid form to register for id 2 met a 404 fetch.
C1_Witness ==
    /\ IsRequest("register")
    /\ last.req.method = "POST"
    /\ last.req.id_ = 2
    /\ last.req.form.password = "p"
    /\ last.req.form.password_confirm = "p"
    /\ last.fetch.status = 404
    /\ last.resp.location = [endpoint |-> "view", id_ |-> 2]

\* C2: with the invite fetched, register on an invite with reset_localpart
\* redirects to reset for the same id, and reset on an invite without it
\* redirects to register for the same id; neither fails nor issues a
\* register call, for GET and POST alike.
C2_WrongPath ==
    (FormEndpoint /\ last.fetch.status = 200 /\ ~RightPath) =>
        /\ last.resp =
             redirect(IF IsRequest("register") THEN "reset" ELSE "register",
                      last.req.id_)
        /\ last.calls = <<>>

\* C2 witness: a POST of a valid form to register on a reset-type invite.
C2_Witness ==
    /\ IsRequest("register")
    /\ last.req.method = "POST"
    /\ last.req.form.password = "p"
    /\ last.req.form.password_confirm = "p"
    /\ last.fetch.status = 200
    /\ last.fetch.invite.reset_localpart = <<"bob">>
    /\ last.resp.location = [endpoint |-> "reset", id_ |-> last.req.id_]

\* A POST to register or reset whose two password fields differ.
MismatchedPost ==
    /\ FormEndpoint
    /\ last.req.method = "POST"
    /\ last.req.form.password # last.req.form.password_confirm

\* C3 as stated: a POST with differing password and password_confirm issues
\* no register call and no session write, and the form is rendered again
\* with the confirmation-mismatch error.
C3_Original ==
    MismatchedPost =>
        /\ last.calls = <<>>
        /\ last.session_write = <<>>
        /\ RightPath =>
              /\ RendersForm
              /\ last.resp.errors.password_confirm = <<MsgMustMatch>>

\* C3 amended: a POST with differing password and password_confirm issues
\* no register call and no session write, and the form is rendered again
\* with an error on password_confirm: the confirmation-mismatch error when
\* password_confirm is not empty, the input-required error when it is.
C3_Mismatch ==
    MismatchedPost =>
        /\ last.calls = <<>>
        /\ last.session_write = <<>>
        /\ RightPath =>
              /\ RendersForm
              /\ last.resp.errors.password_confirm =
                    IF last.req.form.password_confirm = ""
                    THEN <<MsgRequired>> ELSE <<MsgMustMatch>>

\* C3 witness: register re-rendered with the mismatch error for "p" / "q".
C3_Witness ==
    /\ IsRequest("register")
    /\ last.req.method = "POST"
    /\ last.req.form.password = "p"
    /\ last.req.form.password_confirm = "q"
    /\ RightPath
    /\ last.resp.errors.password_confirm = <<MsgMustMatch>>

\* The message register attaches to localpart for a recoverable status.
RegisterMessage(status) ==
    IF status = 409 THEN MsgTaken
    ELSE IF status = 403 THEN MsgDeclined
    ELSE MsgInvalid

\* C4: after a valid register submission, a 409 / 403 / 400 from the
\* register call renders the register form again with the taken / declined
\* / invalid message on localpart and the submitted username still in the
\* form, and a 404 redirects to view; none of them writes the session or
\* redirects to the success page.
C4_RegisterErrorMapping ==
    (IsRequest("register") /\ last.calls # <<>>
        /\ last.reg.status \in {400, 403, 404, 409}) =>
        /\ last.session_write = <<>>
        /\ last.resp.location.endpoint # "success"
        /\ last.reg.status = 404 => last.resp = redirect("view", last.req.id_)
        /\ last.reg.status # 404 =>
              /\ RendersForm
              /\ last.resp.errors.localpart = <<RegisterMessage(last.reg.status)>>
              /\ last.resp.form_localpart = last.req.form.localpart

\* C4 witness: username "alice" met a conflict and is shown again.
C4_Witness ==
    /\ IsRequest("register")
    /\ last.calls # <<>>
    /\ last.reg.status = 409
    /\ last.req.form.localpart = "alice"
    /\ last.resp.form_localpart = "alice"
    /\ last.resp.errors.localpart = <<MsgTaken>>

\* C5: a successful register (reset) call stores the returned identifier in
\* the session and redirects to the success (reset-success) page; the
\* session always holds the identifier last returned to it, so every view
\* of a success page renders that identifier, and the empty string when
\* none was ever stored.
C5_SessionJid ==
    /\ \A s \in Sessions : http_session[s] = registered[s]
    /\ (FormEndpoint /\ last.calls # <<>> /\ last.reg.status = 200) =>
          /\ last.session_write = <<last.reg.jid>>
          /\ http_session[last.req.session] = <<last.reg.jid>>
          /\ last.resp =
               redirect(IF IsRequest("register") THEN "success"
                        ELSE "reset_success", NoId)
    /\ (IsRequest("success") \/ IsRequest("reset_success")) =>
          /\ last.resp.kind = "render"
          /\ last.session_write = <<>>
          /\ last.resp.jid =
               IF registered[last.req.session] = <<>> THEN ""
               ELSE registered[last.req.session][1]

\* C5 witness: a success page rendering the identifier stored earlier.
C5_Witness ==
    /\ IsRequest("success")
    /\ registered[last.req.session] = <<"bob@example.org">>
    /\ last.resp.jid = "bob@example.org"

\* Statuses of the register call each handler maps itself.
MappedStatuses ==
    IF IsRequest("register") THEN {400, 403, 404, 409} ELSE {403, 404}

\* C6: when the register call of a valid register or reset submission fails
\* with a status the handler does not map, the request fails with that
\* error: no page, no redirect, no session write, and the call was issued
\* once.
C6_UnmappedIsFatal ==
    (FormEndpoint /\ last.calls # <<>>
        /\ last.reg.status \notin (MappedStatuses \cup {200})) =>
        /\ last.resp = raise("ClientResponseError", last.reg.status)
        /\ last.session_write = <<>>
        /\ Len(last.calls) = 1

\* C6 witness: reset met a 500 from the register call.
C6_Witness ==
    /\ IsRequest("reset")
    /\ last.calls # <<>>
    /\ last.reg.status = 500
    /\ last.resp.kind = "error"

\* C7 as stated: after a valid reset submission a 403 from the register
\* call renders the reset form again with the declined message, and does not
\* write the session.
C7_ResetForbiddenRecoverable ==
    (IsRequest("reset") /\ last.calls # <<>> /\ last.reg.status = 403) =>
        /\ RendersForm
        /\ MsgDeclined \in
             {last.resp.errors.localpart[i] :
                 i \in 1..Len(last.resp.errors.localpart)}
             \cup {last.resp.errors.password_confirm[i] :
                 i \in 1..Len(last.resp.errors.password_confirm)}
        /\ last.session_write = <<>>

\* The response maps a caught status: a page carrying a message, or a
\* redirect.
MapsError ==
    \/ last.resp.kind = "redirect"
    \/ /\ last.resp.kind = "render"
       /\ \/ last.resp.template = "invite_invalid.html"
          \/ last.resp.errors # NoErrors

\* C8 as stated: every failure status caught from the invite fetch or the
\* register call is mapped to a message or a redirect, or raised again with
\* that status; a fetch failure other than 404 in register or reset is
\* raised again.
C8_NoErrorSwallowed ==
    /\ last.fetch.status \notin {0, 200} =>
          \/ MapsError
          \/ last.resp = raise("ClientResponseError", last.fetch.status)
    /\ (FormEndpoint /\ last.fetch.status \notin {0, 200, 404}) =>
          last.resp = raise("ClientResponseError", last.fetch.status)
    /\ (last.calls # <<>> /\ last.reg.status # 200) =>
          \/ MapsError
          \/ last.resp = raise("ClientResponseError", last.reg.status)

\* C9 as stated: a POST to register with an empty username or an empty
\* password renders the register form again with field errors and issues
\* no register call.
C9_RequiredFields ==
    (IsRequest("register") /\ last.req.method = "POST" /\ RightPath
        /\ (last.req.form.localpart = "" \/ last.req.form.password = "")) =>
        /\ last.calls = <<>>
        /\ RendersForm
        /\ last.resp.errors # NoErrors

\* C10: a register call is issued only with the invite fetched in the same
\* request and with the request's id as token; on an invite with
\* reset_localpart it comes from reset with that localpart as username, on
\* one without from register with the submitted username.
C10_CallBinding ==
    last.calls # <<>> =>
        /\ last.fetch.status = 200
        /\ Len(last.calls) = 1
        /\ last.calls[1].token = last.req.id_
        /\ last.calls[1].password = last.req.form.password
        /\ IF last.fetch.invite.reset_localpart # <<>>
           THEN /\ IsRequest("reset")
                /\ last.calls[1].username = last.fetch.invite.reset_localpart[1]
           ELSE /\ IsRequest("register")
                /\ last.calls[1].username = last.req.form.localpart

\* C10 witness: reset issued the call for "bob" although the form named
\* "alice".
C10_Witness ==
    /\ IsRequest("reset")
    /\ last.calls # <<>>
    /\ last.req.form.localpart = "alice"
    /\ last.calls[1].username = "bob"
    /\ last.calls[1].token = last.req.id_
====
